---- MODULE Spec2Model ----
(***************************************************************************)
(* LLM Council backend: the message endpoints of backend/main.py           *)
(* (send_message, send_message_stream and its event_generator) as a state  *)
(* machine.  backend/council.py and backend/storage.py are imported by     *)
(* main.py; their operations are modelled from the design document and     *)
(* are marked as such where they are defined.                              *)
(*                                                                         *)
(* Spec follows one message request on one stored conversation whose       *)
(* earlier history is chosen by Init.                                      *)
(***************************************************************************)
EXTENDS Integers, Sequences, FiniteSets, TLC

\* ------------------------------------------------------------------------
\* Configuration (backend/config.py)
\* ------------------------------------------------------------------------
COUNCIL_MODELS == <<"gpt-4o", "gemini-2.0-flash", "claude-sonnet-4-5">>

CHAIRMAN_MODEL == "gpt-4o"

NumModels == Len(COUNCIL_MODELS)

ModelIdx == 1..NumModels

\* ------------------------------------------------------------------------
\* Bounds of the model
\* ------------------------------------------------------------------------
\* Number of complete earlier turns the conversation may already hold.
MaxPriorTurns == 1

\* Number of message requests; Spec runs the first one only, SpecRace all.
MaxRequests == 2

Requests == 1..MaxRequests

\* Conversation ids a request may name: one that is stored, one that is not.
StoredIds == {"c1"}

ConvIds == StoredIds \cup {"missing"}

DefaultTitle == "New Conversation"

GeneratedTitle == "Generated Title"

Labels == <<"Response A", "Response B", "Response C">>

\* Lexicographic order of the model identifiers.
LexOrder == <<"claude-sonnet-4-5", "gemini-2.0-flash", "gpt-4o">>

LexRank(m) == CHOOSE i \in 1..Len(LexOrder) : LexOrder[i] = m

VARIABLES
    storage,      \* conversation id -> [title, messages]
    kind,         \* request -> "none" | "sync" | "stream"
    conv,         \* request -> conversation id named by the request
    pc,           \* request -> position of its coroutine
    is_first_message, \* request -> BOOLEAN
    title_task,   \* request -> "none" | "pending" | "ok" | "fail" | "cancelled"
    calls,        \* request -> stage (1..2) -> model index -> call status
    chairman,     \* request -> status of the Stage-3 chairman call
    locals,       \* request -> the pipeline's local variables
    events,       \* request -> the server-sent events yielded so far
    response,     \* request -> [status, body] of the HTTP response
    conn,         \* request -> "open" | "closed" (the caller's connection)
    late,         \* request -> stages dispatched while the connection was closed
    disc_stage,   \* request -> stage during or just after which the caller
                  \* disconnected (0: before Stage 1 ran, -1: no disconnect)
    settle_order, \* request -> model indices in the order their Stage-1
                  \* calls settled
    \* the Rank Aggregator on its own
    agg_orig,     \* the ranking submissions as first handed over
    agg_subs,     \* the ranking submissions in their current order
    agg_l2m,      \* the label map
    agg_result,   \* <<>> or <<the aggregate ranking last computed>>
    \* the proxy process the application manages (backend/main.py 210-284)
    proxy_pc,       \* position of the application in its lifecycle
    lifecycles,     \* number of startups so far
    health,         \* what the first health check of this startup reported
    binary_exists,  \* the proxy binary is installed
    external_up,    \* a proxy the application did not start is answering
    proxy_process,  \* _proxy_process: 0 for None, else the process started
    procs,          \* process -> its state and what was done to it
    \* the launcher script (backend/start_proxy.py)
    cli_pc,         \* position in main()
    cli_command,    \* args.command
    cli_provider,   \* args.provider, "" when not given
    cli_binary,     \* the proxy binary is on disk
    cli_next,       \* index of the next provider to prompt for
    cli_trace,      \* the steps run so far
    cli_exit,       \* exit status, -1 while running
    cli_process     \* the proxy process started by the script

\* The variables of the other components, which the message endpoints
\* leave alone.
aggVars == <<agg_orig, agg_subs, agg_l2m, agg_result>>

proxyVars ==
    <<proxy_pc, lifecycles, health, binary_exists, external_up, proxy_process,
      procs>>

cliVars ==
    <<cli_pc, cli_command, cli_provider, cli_binary, cli_next, cli_trace,
      cli_exit, cli_process>>

others == <<aggVars, proxyVars, cliVars>>

vars == <<storage, kind, conv, pc, is_first_message, title_task, calls, chairman,
          locals, events, response, conn, late, disc_stage, settle_order, others>>

\* ------------------------------------------------------------------------
\* Values
\* ------------------------------------------------------------------------
NoResult == [text |-> "", error |-> ""]

NoLocals == [stage1_results |-> <<>>, stage2_results |-> <<>>,
             label_to_model |-> <<>>, aggregate_rankings |-> <<>>,
             stage3_result |-> NoResult, metadata_set |-> FALSE]

IdleCalls == [k \in 1..2 |-> [i \in ModelIdx |-> "idle"]]

NoResponse == [status |-> 0, body |-> <<>>]

Settled(st) == st \in {"ok", "fail"}

AllSettled(cs) == \A i \in ModelIdx : Settled(cs[i])

\* A complete earlier turn as the store holds it.
PriorTurn == << [role |-> "user", content |-> 0, by |-> 0],
                [role |-> "assistant", stage1 |-> <<>>, stage2 |-> <<>>,
                 stage3 |-> [text |-> "earlier answer", error |-> ""], by |-> 0] >>

RECURSIVE PriorTurns(_)
PriorTurns(n) == IF n = 0 THEN <<>> ELSE PriorTurns(n - 1) \o PriorTurn


\* ------------------------------------------------------------------------
\* storage (backend/storage.py, modelled from the design document:
\* an append-only message list and a title per conversation)
\* ------------------------------------------------------------------------
get_conversation_exists(c) == c \in DOMAIN storage

add_user_message(st, c, r) ==
    [st EXCEPT ![c].messages =
        Append(@, [role |-> "user", content |-> r, by |-> r])]

add_assistant_message(st, c, r, s1, s2, s3) ==
    [st EXCEPT ![c].messages =
        Append(@, [role |-> "assistant", stage1 |-> s1, stage2 |-> s2,
                   stage3 |-> s3, by |-> r])]

update_conversation_title(st, c, t) == [st EXCEPT ![c].title = t]

\* ------------------------------------------------------------------------
\* council (backend/council.py, modelled from the design document)
\* ------------------------------------------------------------------------
\* Stage 1: one ModelResponse per council model, in configuration order.
stage1_collect_responses(cs) ==
    [i \in ModelIdx |->
        [model |-> COUNCIL_MODELS[i],
         text  |-> IF cs[i] = "ok" THEN "answer" ELSE "",
         error |-> IF cs[i] = "ok" THEN "" ELSE "Failure"]]

Successful(s1) == SelectSeq(s1, LAMBDA x : x.error = "")

\* Labels are assigned positionally over the successful responses.
LabelSeq(s1) == SubSeq(Labels, 1, Len(Successful(s1)))

LabelMap(s1) ==
    LET ok == Successful(s1)
    IN  [l \in {Labels[i] : i \in 1..Len(ok)} |->
            ok[CHOOSE i \in 1..Len(ok) : Labels[i] = l].model]

Rotate(s, k) == [i \in 1..Len(s) |-> s[((i - 1 + k) % Len(s)) + 1]]

\* The reply of judge j: the labels it was shown, in an order of its own.
JudgeReply(j, ls) == IF ls = <<>> THEN <<>> ELSE Rotate(ls, j - 1)

\* Stage 2: one RankingSubmission per council model; a reply with no
\* recognised label is a Malformed failure of that submission.
stage2_collect_rankings(cs, s1) ==
    [j \in ModelIdx |->
        LET reply == IF cs[j] = "ok" THEN JudgeReply(j, LabelSeq(s1)) ELSE <<>>
        IN  [judge |-> COUNCIL_MODELS[j],
             ordered_labels |-> reply,
             raw_text |-> IF cs[j] = "ok" THEN "ranking" ELSE "",
             error |-> IF cs[j] # "ok" THEN "Failure"
                       ELSE IF reply = <<>> THEN "Malformed" ELSE ""]]

\* Faulty variant: points are counted from the council size, not from the
\* number of labels the judge ranked.
Points_fixed_n(sub, l) ==
    LET ol == sub.ordered_labels
        at == {p \in 1..Len(ol) : ol[p] = l}
    IN  IF sub.error # "" \/ at = {} THEN 0
        ELSE NumModels - (CHOOSE p \in at : \A q \in at : p <= q) + 1

\* Points one submission gives a label: N - p + 1 at position p, 0 if omitted.
Points(sub, l) ==
    LET ol == sub.ordered_labels
        at == {p \in 1..Len(ol) : ol[p] = l}
    IN  IF sub.error # "" \/ at = {} THEN 0
        ELSE Len(ol) - (CHOOSE p \in at : \A q \in at : p <= q) + 1

RECURSIVE SumPoints(_, _, _)
SumPoints(subs, l, n) ==
    IF n = 0 THEN 0 ELSE SumPoints(subs, l, n - 1) + Points(subs[n], l)

Score(subs, l) == SumPoints(subs, l, Len(subs))

\* Faulty variant: ties are broken by the first submission alone.
FirstPlaces_leading(subs, l) ==
    IF /\ Len(subs) > 0
       /\ subs[1].error = ""
       /\ Len(subs[1].ordered_labels) > 0
       /\ subs[1].ordered_labels[1] = l
    THEN 1 ELSE 0

FirstPlaces(subs, l) ==
    Cardinality({n \in 1..Len(subs) :
        /\ subs[n].error = ""
        /\ Len(subs[n].ordered_labels) > 0
        /\ subs[n].ordered_labels[1] = l})

\* The aggregate ranking: models by descending score, ties broken by the
\* number of first places, then by model identifier.
calculate_aggregate_rankings(subs, l2m) ==
    LET ls == DOMAIN l2m
        sc == [l \in ls |-> Score(subs, l)]
        fp == [l \in ls |-> FirstPlaces(subs, l)]
        before(a, b) ==
            \/ sc[a] > sc[b]
            \/ sc[a] = sc[b] /\ fp[a] > fp[b]
            \/ sc[a] = sc[b] /\ fp[a] = fp[b] /\ LexRank(l2m[a]) < LexRank(l2m[b])
        pos == [l \in ls |-> 1 + Cardinality({a \in ls : before(a, l)})]
    IN  [p \in 1..Cardinality(ls) |->
            LET l == CHOOSE x \in ls : pos[x] = p
            IN  [model |-> l2m[l], score |-> sc[l]]]

\* How a failure of the chairman call leaves stage3_synthesize_final: as a
\* raised exception or as a SynthesisResult with error set.
FailureModes == {"raise", "result"}

FatalChairman == "Fatal: chairman failed"

FatalNoResponses == "Fatal: no responses"

stage3_synthesize_final(st) ==
    IF st = "ok" THEN [text |-> "synthesis", error |-> ""]
    ELSE [text |-> "", error |-> FatalChairman]

\* Title generation never propagates an error: on failure the title it
\* returns is the default placeholder.
generate_conversation_title(st) ==
    IF st = "ok" THEN GeneratedTitle ELSE DefaultTitle

\* ------------------------------------------------------------------------
\* Initial states
\* ------------------------------------------------------------------------
\* The message endpoints before any request, with the requests of `active`
\* still to arrive.
InitEndpoints(active) ==
    /\ \E n \in 0..MaxPriorTurns : \E t \in {DefaultTitle, GeneratedTitle} :
          /\ n = 0 => t = DefaultTitle
          /\ storage = [c \in StoredIds |->
                          [title |-> t, messages |-> PriorTurns(n)]]
    /\ kind = [r \in Requests |-> "none"]
    /\ conv = [r \in Requests |-> "missing"]
    /\ pc = [r \in Requests |-> IF r \in active THEN "idle" ELSE "unused"]
    /\ is_first_message = [r \in Requests |-> FALSE]
    /\ title_task = [r \in Requests |-> "none"]
    /\ calls = [r \in Requests |-> IdleCalls]
    /\ chairman = [r \in Requests |-> "idle"]
    /\ locals = [r \in Requests |-> NoLocals]
    /\ events = [r \in Requests |-> <<>>]
    /\ response = [r \in Requests |-> NoResponse]
    /\ conn = [r \in Requests |-> "open"]
    /\ late = [r \in Requests |-> {}]
    /\ disc_stage = [r \in Requests |-> -1]
    /\ settle_order = [r \in Requests |-> <<>>]

\* No message request is under way and the conversation is empty.
EndpointsIdle ==
    /\ InitEndpoints({})
    /\ \A c \in StoredIds : storage[c].messages = <<>>

AggIdle ==
    /\ agg_orig = <<>>
    /\ agg_subs = <<>>
    /\ agg_l2m = <<>>
    /\ agg_result = <<>>

\* Number of times the application is started and shut down.
MaxLifecycles == 2

Procs == 1..MaxLifecycles

NoProc ==
    [state |-> "unborn", terminated |-> FALSE, waited |-> FALSE,
     health_seen |-> "none", binary_seen |-> FALSE]

\* The application is not running and manages no process.
ProxyIdle ==
    /\ proxy_pc = "off"
    /\ lifecycles = 0
    /\ health = "none"
    /\ binary_exists = FALSE
    /\ external_up = FALSE
    /\ proxy_process = 0
    /\ procs = [p \in Procs |-> NoProc]

\* The launcher script is not running.
CliIdle ==
    /\ cli_pc = "off"
    /\ cli_command = "none"
    /\ cli_provider = ""
    /\ cli_binary = FALSE
    /\ cli_next = 0
    /\ cli_trace = <<>>
    /\ cli_exit = -1
    /\ cli_process = "none"

Init == InitEndpoints({1}) /\ AggIdle /\ ProxyIdle /\ CliIdle

\* ------------------------------------------------------------------------
\* Helpers of the actions
\* ------------------------------------------------------------------------
Yield(r, e) == events' = [events EXCEPT ![r] = Append(@, e)]

\* The fan-out of stage k starts: one call per council model is in flight.
Dispatch(r, k) ==
    /\ calls' = [calls EXCEPT ![r][k] = [i \in ModelIdx |-> "inflight"]]
    /\ late' = [late EXCEPT ![r] =
                  IF conn[r] = "closed" THEN @ \cup {k} ELSE @]
    /\ UNCHANGED <<disc_stage, settle_order, others>>

DispatchChairman(r) ==
    /\ chairman' = [chairman EXCEPT ![r] = "inflight"]
    /\ late' = [late EXCEPT ![r] =
                  IF conn[r] = "closed" THEN @ \cup {3} ELSE @]
    /\ UNCHANGED <<disc_stage, settle_order, others>>

\* Positions at which the generator of a stream is alive.
GeneratorPositions ==
    {"gen_ready", "y_stage1_start", "await_stage1", "y_stage1_complete",
     "y_stage2_start", "await_stage2", "y_stage2_complete", "y_stage3_start",
     "await_stage3", "y_stage3_complete", "await_title", "y_title_complete",
     "y_complete", "y_error"}

\* The stage that is running, or has just completed, at a position.
StageWindow(p) ==
    IF p \in {"await_stage1", "y_stage1_complete", "y_stage2_start"} THEN 1
    ELSE IF p \in {"await_stage2", "y_stage2_complete", "y_stage3_start"} THEN 2
    ELSE IF p \in {"await_stage3", "y_stage3_complete", "await_title",
                   "y_title_complete", "y_complete", "y_error"} THEN 3
    ELSE 0

\* ------------------------------------------------------------------------
\* send_message_stream and its event_generator (backend/main.py)
\* ------------------------------------------------------------------------
\* Faulty variant: the conversation is looked up inside the generator, so
\* a missing conversation opens the stream and is reported as an event.
send_message_stream_lookup_in_generator(r, c) ==
    /\ pc[r] = "idle"
    /\ kind' = [kind EXCEPT ![r] = "stream"]
    /\ conv' = [conv EXCEPT ![r] = c]
    /\ response' = [response EXCEPT ![r] =
                      [status |-> 200, body |-> "text/event-stream"]]
    /\ IF ~get_conversation_exists(c)
       THEN /\ Yield(r, [type |-> "error", message |-> "Conversation not found"])
            /\ pc' = [pc EXCEPT ![r] = "y_error"]
            /\ UNCHANGED is_first_message
       ELSE /\ is_first_message' = [is_first_message EXCEPT ![r] =
                                      Len(storage[c].messages) = 0]
            /\ pc' = [pc EXCEPT ![r] = "gen_ready"]
            /\ UNCHANGED events
    /\ UNCHANGED <<storage, title_task, calls, chairman, locals, conn, late,
                   disc_stage, settle_order, others>>

send_message_stream(r, c) ==
    /\ pc[r] = "idle"
    /\ kind' = [kind EXCEPT ![r] = "stream"]
    /\ conv' = [conv EXCEPT ![r] = c]
    /\ IF ~get_conversation_exists(c)
       THEN /\ response' = [response EXCEPT ![r] =
                              [status |-> 404, body |-> "Conversation not found"]]
            /\ pc' = [pc EXCEPT ![r] = "rejected"]
            /\ UNCHANGED is_first_message
       ELSE /\ is_first_message' = [is_first_message EXCEPT ![r] =
                                      Len(storage[c].messages) = 0]
            /\ response' = [response EXCEPT ![r] =
                              [status |-> 200, body |-> "text/event-stream"]]
            /\ pc' = [pc EXCEPT ![r] = "gen_ready"]
    /\ UNCHANGED <<storage, title_task, calls, chairman, locals, events, conn, late, disc_stage, settle_order, others>>

\* Lines 411-420: store the user message, start the title task, first yield.
event_generator_begin(r) ==
    /\ pc[r] = "gen_ready"
    /\ storage' = add_user_message(storage, conv[r], r)
    /\ title_task' = [title_task EXCEPT ![r] =
                        IF is_first_message[r] THEN "pending" ELSE "none"]
    /\ Yield(r, [type |-> "stage1_start"])
    /\ pc' = [pc EXCEPT ![r] = "y_stage1_start"]
    /\ UNCHANGED <<kind, conv, is_first_message, calls, chairman, locals,
                   response, conn, late, disc_stage, settle_order, others>>

\* Line 421, up to the await.
event_generator_stage1_call(r) ==
    /\ pc[r] = "y_stage1_start"
    /\ Dispatch(r, 1)
    /\ pc' = [pc EXCEPT ![r] = "await_stage1"]
    /\ UNCHANGED <<storage, kind, conv, is_first_message, title_task, chairman,
                   locals, events, response, conn>>

\* Faulty variant: Stage 1 is taken as complete without waiting for every
\* call to settle.
event_generator_stage1_complete_early(r) ==
    /\ pc[r] = "await_stage1"
    /\ LET s1 == stage1_collect_responses(calls[r][1])
       IN  /\ locals' = [locals EXCEPT ![r].stage1_results = s1]
           /\ Yield(r, [type |-> "stage1_complete", data |-> s1])
    /\ pc' = [pc EXCEPT ![r] = "y_stage1_complete"]
    /\ UNCHANGED <<storage, kind, conv, is_first_message, title_task, calls,
                   chairman, response, conn, late, disc_stage, settle_order, others>>

\* Faulty variant: the Stage-1 results are collected in the order in which
\* the calls completed.
event_generator_stage1_complete_as_completed(r) ==
    /\ pc[r] = "await_stage1"
    /\ AllSettled(calls[r][1])
    /\ LET full == stage1_collect_responses(calls[r][1])
           s1 == [n \in 1..Len(settle_order[r]) |-> full[settle_order[r][n]]]
       IN  /\ locals' = [locals EXCEPT ![r].stage1_results = s1]
           /\ Yield(r, [type |-> "stage1_complete", data |-> s1])
    /\ pc' = [pc EXCEPT ![r] = "y_stage1_complete"]
    /\ UNCHANGED <<storage, kind, conv, is_first_message, title_task, calls,
                   chairman, response, conn, late, disc_stage, settle_order, others>>

\* Faulty variant: the await returns only once every call has succeeded.
event_generator_stage1_complete_all_ok(r) ==
    /\ pc[r] = "await_stage1"
    /\ \A i \in ModelIdx : calls[r][1][i] = "ok"
    /\ LET s1 == stage1_collect_responses(calls[r][1])
       IN  /\ locals' = [locals EXCEPT ![r].stage1_results = s1]
           /\ Yield(r, [type |-> "stage1_complete", data |-> s1])
    /\ pc' = [pc EXCEPT ![r] = "y_stage1_complete"]
    /\ UNCHANGED <<storage, kind, conv, is_first_message, title_task, calls,
                   chairman, response, conn, late, disc_stage, settle_order, others>>

\* Lines 421-422: the await returns once every call has settled.
event_generator_stage1_complete(r) ==
    /\ pc[r] = "await_stage1"
    /\ AllSettled(calls[r][1])
    /\ LET s1 == stage1_collect_responses(calls[r][1])
       IN  /\ locals' = [locals EXCEPT ![r].stage1_results = s1]
           /\ Yield(r, [type |-> "stage1_complete", data |-> s1])
    /\ pc' = [pc EXCEPT ![r] = "y_stage1_complete"]
    /\ UNCHANGED <<storage, kind, conv, is_first_message, title_task, calls,
                   chairman, response, conn, late, disc_stage, settle_order, others>>

\* Faulty variant: the Stage-2 start is announced with the Stage-1 event.
event_generator_stage2_start_dup(r) ==
    /\ pc[r] = "y_stage1_complete"
    /\ Yield(r, [type |-> "stage1_start"])
    /\ pc' = [pc EXCEPT ![r] = "y_stage2_start"]
    /\ UNCHANGED <<storage, kind, conv, is_first_message, title_task, calls,
                   chairman, locals, response, conn, late, disc_stage, settle_order, others>>

\* Line 425.
event_generator_stage2_start(r) ==
    /\ pc[r] = "y_stage1_complete"
    /\ Yield(r, [type |-> "stage2_start"])
    /\ pc' = [pc EXCEPT ![r] = "y_stage2_start"]
    /\ UNCHANGED <<storage, kind, conv, is_first_message, title_task, calls,
                   chairman, locals, response, conn, late, disc_stage, settle_order, others>>

\* Line 426, up to the await.
event_generator_stage2_call(r) ==
    /\ pc[r] = "y_stage2_start"
    /\ Dispatch(r, 2)
    /\ pc' = [pc EXCEPT ![r] = "await_stage2"]
    /\ UNCHANGED <<storage, kind, conv, is_first_message, title_task, chairman,
                   locals, events, response, conn>>

\* Faulty variant: stage2_complete carries the Stage-1 results as its data.
event_generator_stage2_complete_wrongdata(r) ==
    /\ pc[r] = "await_stage2"
    /\ AllSettled(calls[r][2])
    /\ LET s1  == locals[r].stage1_results
           s2  == stage2_collect_rankings(calls[r][2], s1)
           l2m == LabelMap(s1)
           agg == calculate_aggregate_rankings(s2, l2m)
       IN  /\ locals' = [locals EXCEPT ![r].stage2_results = s2,
                                       ![r].label_to_model = l2m,
                                       ![r].aggregate_rankings = agg,
                                       ![r].metadata_set = TRUE]
           /\ Yield(r, [type |-> "stage2_complete", data |-> s1,
                        metadata |-> [label_to_model |-> l2m,
                                      aggregate_rankings |-> agg]])
    /\ pc' = [pc EXCEPT ![r] = "y_stage2_complete"]
    /\ UNCHANGED <<storage, kind, conv, is_first_message, title_task, calls,
                   chairman, response, conn, late, disc_stage, settle_order, others>>

\* Lines 426-428.
event_generator_stage2_complete(r) ==
    /\ pc[r] = "await_stage2"
    /\ AllSettled(calls[r][2])
    /\ \E s2 \in {stage2_collect_rankings(calls[r][2], locals[r].stage1_results)} :
       \E l2m \in {LabelMap(locals[r].stage1_results)} :
       \E agg \in {calculate_aggregate_rankings(s2, l2m)} :
           /\ locals' = [locals EXCEPT ![r].stage2_results = s2,
                                       ![r].label_to_model = l2m,
                                       ![r].aggregate_rankings = agg,
                                       ![r].metadata_set = TRUE]
           /\ Yield(r, [type |-> "stage2_complete", data |-> s2,
                        metadata |-> [label_to_model |-> l2m,
                                      aggregate_rankings |-> agg]])
    /\ pc' = [pc EXCEPT ![r] = "y_stage2_complete"]
    /\ UNCHANGED <<storage, kind, conv, is_first_message, title_task, calls,
                   chairman, response, conn, late, disc_stage, settle_order, others>>

\* Line 431.
event_generator_stage3_start(r) ==
    /\ pc[r] = "y_stage2_complete"
    /\ Yield(r, [type |-> "stage3_start"])
    /\ pc' = [pc EXCEPT ![r] = "y_stage3_start"]
    /\ UNCHANGED <<storage, kind, conv, is_first_message, title_task, calls,
                   chairman, locals, response, conn, late, disc_stage, settle_order, others>>

\* Line 432, up to the await.
event_generator_stage3_call(r) ==
    /\ pc[r] = "y_stage3_start"
    /\ DispatchChairman(r)
    /\ pc' = [pc EXCEPT ![r] = "await_stage3"]
    /\ UNCHANGED <<storage, kind, conv, is_first_message, title_task, calls,
                   locals, events, response, conn>>

\* Faulty variant: the exception of the chairman call is reported and then
\* swallowed, so the generator carries on after the error event.
event_generator_stage3_complete_swallow(r) ==
    /\ pc[r] = "await_stage3"
    /\ Settled(chairman[r])
    /\ \E mode \in FailureModes :
          IF chairman[r] = "fail" /\ mode = "raise"
          THEN /\ Yield(r, [type |-> "error", message |-> FatalChairman])
               /\ pc' = [pc EXCEPT ![r] = "y_stage3_complete"]
               /\ UNCHANGED locals
          ELSE LET s3 == stage3_synthesize_final(chairman[r])
               IN  /\ locals' = [locals EXCEPT ![r].stage3_result = s3]
                   /\ Yield(r, [type |-> "stage3_complete", data |-> s3])
                   /\ pc' = [pc EXCEPT ![r] = "y_stage3_complete"]
    /\ UNCHANGED <<storage, kind, conv, is_first_message, title_task, calls,
                   chairman, response, conn, late, disc_stage, settle_order, others>>

\* Lines 432-433, and 452-454 when the chairman call raises.
event_generator_stage3_complete(r) ==
    /\ pc[r] = "await_stage3"
    /\ Settled(chairman[r])
    /\ \E mode \in FailureModes :
          IF chairman[r] = "fail" /\ mode = "raise"
          THEN /\ Yield(r, [type |-> "error", message |-> FatalChairman])
               /\ pc' = [pc EXCEPT ![r] = "y_error"]
               /\ UNCHANGED locals
          ELSE LET s3 == stage3_synthesize_final(chairman[r])
               IN  /\ locals' = [locals EXCEPT ![r].stage3_result = s3]
                   /\ Yield(r, [type |-> "stage3_complete", data |-> s3])
                   /\ pc' = [pc EXCEPT ![r] = "y_stage3_complete"]
    /\ UNCHANGED <<storage, kind, conv, is_first_message, title_task, calls,
                   chairman, response, conn, late, disc_stage, settle_order, others>>

\* Lines 436-437: the title task is awaited while it is still pending.
event_generator_title_wait(r) ==
    /\ pc[r] = "y_stage3_complete"
    /\ title_task[r] = "pending"
    /\ pc' = [pc EXCEPT ![r] = "await_title"]
    /\ UNCHANGED <<storage, kind, conv, is_first_message, title_task, calls,
                   chairman, locals, events, response, conn, late, disc_stage, settle_order, others>>

\* Faulty variant: a failed title generation is raised inside the try block.
event_generator_title_complete_raises(r) ==
    /\ pc[r] \in {"y_stage3_complete", "await_title"}
    /\ Settled(title_task[r])
    /\ IF title_task[r] = "fail"
       THEN /\ Yield(r, [type |-> "error", message |-> "title generation failed"])
            /\ pc' = [pc EXCEPT ![r] = "y_error"]
            /\ UNCHANGED storage
       ELSE LET title == generate_conversation_title(title_task[r])
            IN  /\ storage' = update_conversation_title(storage, conv[r], title)
                /\ Yield(r, [type |-> "title_complete", data |-> [title |-> title]])
                /\ pc' = [pc EXCEPT ![r] = "y_title_complete"]
    /\ UNCHANGED <<kind, conv, is_first_message, title_task, calls, chairman,
                   locals, response, conn, late, disc_stage, settle_order, others>>

\* Lines 437-439.
event_generator_title_complete(r) ==
    /\ pc[r] \in {"y_stage3_complete", "await_title"}
    /\ Settled(title_task[r])
    /\ LET title == generate_conversation_title(title_task[r])
       IN  /\ storage' = update_conversation_title(storage, conv[r], title)
           /\ Yield(r, [type |-> "title_complete", data |-> [title |-> title]])
    /\ pc' = [pc EXCEPT ![r] = "y_title_complete"]
    /\ UNCHANGED <<kind, conv, is_first_message, title_task, calls, chairman,
                   locals, response, conn, late, disc_stage, settle_order, others>>

\* Faulty variant: the stream completes without persisting the turn.
event_generator_save_unsaved(r) ==
    /\ \/ pc[r] = "y_title_complete"
       \/ pc[r] = "y_stage3_complete" /\ title_task[r] = "none"
    /\ Yield(r, [type |-> "complete"])
    /\ pc' = [pc EXCEPT ![r] = "y_complete"]
    /\ UNCHANGED <<storage, kind, conv, is_first_message, title_task, calls,
                   chairman, locals, response, conn, late, disc_stage,
                   settle_order, others>>

\* Lines 441-450.
event_generator_save(r) ==
    /\ \/ pc[r] = "y_title_complete"
       \/ pc[r] = "y_stage3_complete" /\ title_task[r] = "none"
    /\ storage' = add_assistant_message(storage, conv[r], r,
                      locals[r].stage1_results, locals[r].stage2_results,
                      locals[r].stage3_result)
    /\ Yield(r, [type |-> "complete"])
    /\ pc' = [pc EXCEPT ![r] = "y_complete"]
    /\ UNCHANGED <<kind, conv, is_first_message, title_task, calls, chairman,
                   locals, response, conn, late, disc_stage, settle_order, others>>

\* The generator is resumed after its last yield and returns.
event_generator_return(r) ==
    /\ pc[r] \in {"y_complete", "y_error"}
    /\ pc' = [pc EXCEPT ![r] = "closed"]
    /\ UNCHANGED <<storage, kind, conv, is_first_message, title_task, calls,
                   chairman, locals, events, response, conn, late, disc_stage, settle_order, others>>


\* ------------------------------------------------------------------------
\* send_message (backend/main.py) around run_full_council (council.py)
\* ------------------------------------------------------------------------
\* run_full_council starts: the Stage-1 fan-out is dispatched.
run_full_council_begin(r) ==
    /\ Dispatch(r, 1)
    /\ pc' = [pc EXCEPT ![r] = "rfc_await_stage1"]

\* Lines 378-392: the returned tuple is persisted and sent back.
send_message_finish(r, s1, s2, s3, meta) ==
    /\ storage' = add_assistant_message(storage, conv[r], r, s1, s2, s3)
    /\ response' = [response EXCEPT ![r] =
                      [status |-> 200,
                       body |-> [stage1 |-> s1, stage2 |-> s2, stage3 |-> s3,
                                 metadata |-> meta]]]
    /\ pc' = [pc EXCEPT ![r] = "responded"]

\* Lines 357-376, up to the first await.
send_message(r, c) ==
    /\ pc[r] = "idle"
    /\ kind' = [kind EXCEPT ![r] = "sync"]
    /\ conv' = [conv EXCEPT ![r] = c]
    /\ IF ~get_conversation_exists(c)
       THEN /\ response' = [response EXCEPT ![r] =
                              [status |-> 404, body |-> "Conversation not found"]]
            /\ pc' = [pc EXCEPT ![r] = "rejected"]
            /\ UNCHANGED <<storage, is_first_message, title_task, calls, late, disc_stage, settle_order, others>>
       ELSE LET first == Len(storage[c].messages) = 0
            IN  /\ is_first_message' = [is_first_message EXCEPT ![r] = first]
                /\ storage' = add_user_message(storage, c, r)
                /\ IF first
                   THEN /\ title_task' = [title_task EXCEPT ![r] = "pending"]
                        /\ pc' = [pc EXCEPT ![r] = "sm_await_title"]
                        /\ UNCHANGED <<calls, late, disc_stage, settle_order, others>>
                   ELSE /\ run_full_council_begin(r)
                        /\ UNCHANGED title_task
                /\ UNCHANGED response
    /\ UNCHANGED <<chairman, locals, events, conn>>

\* Lines 370-374: the awaited title arrives, is stored, the council starts.
send_message_title_done(r) ==
    /\ pc[r] = "sm_await_title"
    /\ Settled(title_task[r])
    /\ storage' = update_conversation_title(storage, conv[r],
                      generate_conversation_title(title_task[r]))
    /\ run_full_council_begin(r)
    /\ UNCHANGED <<kind, conv, is_first_message, title_task, chairman, locals,
                   events, response, conn>>

\* run_full_council after Stage 1: with no successful response Stage 2 and
\* Stage 3 are skipped and the turn returned is Fatal("no responses").
run_full_council_stage1_done(r) ==
    /\ pc[r] = "rfc_await_stage1"
    /\ AllSettled(calls[r][1])
    /\ LET s1 == stage1_collect_responses(calls[r][1])
       IN  /\ locals' = [locals EXCEPT ![r].stage1_results = s1,
                            ![r].stage3_result =
                                IF Successful(s1) = <<>>
                                THEN [text |-> "", error |-> FatalNoResponses]
                                ELSE @]
           /\ IF Successful(s1) = <<>>
              THEN /\ send_message_finish(r, s1, <<>>,
                          [text |-> "", error |-> FatalNoResponses],
                          [label_to_model |-> <<>>, aggregate_rankings |-> <<>>])
                   /\ UNCHANGED <<calls, late, disc_stage, settle_order, others>>
              ELSE /\ Dispatch(r, 2)
                   /\ pc' = [pc EXCEPT ![r] = "rfc_await_stage2"]
                   /\ UNCHANGED <<storage, response>>
    /\ UNCHANGED <<kind, conv, is_first_message, title_task, chairman, events, conn>>

\* run_full_council after Stage 2: rankings, label map, aggregate; then the
\* chairman call is dispatched.
run_full_council_stage2_done(r) ==
    /\ pc[r] = "rfc_await_stage2"
    /\ AllSettled(calls[r][2])
    /\ LET s1  == locals[r].stage1_results
           s2  == stage2_collect_rankings(calls[r][2], s1)
           l2m == LabelMap(s1)
       IN  locals' = [locals EXCEPT ![r].stage2_results = s2,
                          ![r].label_to_model = l2m,
                          ![r].aggregate_rankings =
                              calculate_aggregate_rankings(s2, l2m),
                          ![r].metadata_set = TRUE]
    /\ DispatchChairman(r)
    /\ pc' = [pc EXCEPT ![r] = "rfc_await_stage3"]
    /\ UNCHANGED <<storage, kind, conv, is_first_message, title_task, calls,
                   events, response, conn>>

\* run_full_council after Stage 3: the turn is returned, marked Fatal when
\* the chairman failed; then the rest of send_message.
run_full_council_stage3_done(r) ==
    /\ pc[r] = "rfc_await_stage3"
    /\ Settled(chairman[r])
    /\ LET s3 == stage3_synthesize_final(chairman[r])
       IN  /\ locals' = [locals EXCEPT ![r].stage3_result = s3]
           /\ send_message_finish(r, locals[r].stage1_results,
                  locals[r].stage2_results, s3,
                  [label_to_model |-> locals[r].label_to_model,
                   aggregate_rankings |-> locals[r].aggregate_rankings])
    /\ UNCHANGED <<kind, conv, is_first_message, title_task, calls, chairman,
                   events, conn, late, disc_stage, settle_order, others>>

\* ------------------------------------------------------------------------
\* The environment: model calls settle, the caller disconnects
\* ------------------------------------------------------------------------
model_call_settles(r, k, i, outcome) ==
    /\ calls[r][k][i] = "inflight"
    /\ calls' = [calls EXCEPT ![r][k][i] = outcome]
    /\ settle_order' = [settle_order EXCEPT ![r] =
                          IF k = 1 THEN Append(@, i) ELSE @]
    /\ UNCHANGED <<storage, kind, conv, pc, is_first_message, title_task,
                   chairman, locals, events, response, conn, late, disc_stage,
                   others>>

chairman_call_settles(r, outcome) ==
    /\ chairman[r] = "inflight"
    /\ chairman' = [chairman EXCEPT ![r] = outcome]
    /\ UNCHANGED <<storage, kind, conv, pc, is_first_message, title_task,
                   calls, locals, events, response, conn, late, disc_stage, settle_order, others>>

title_call_settles(r, outcome) ==
    /\ title_task[r] = "pending"
    /\ title_task' = [title_task EXCEPT ![r] = outcome]
    /\ UNCHANGED <<storage, kind, conv, pc, is_first_message, calls, chairman,
                   locals, events, response, conn, late, disc_stage, settle_order, others>>

client_disconnects(r) ==
    /\ kind[r] = "stream"
    /\ pc[r] \in GeneratorPositions
    /\ conn[r] = "open"
    /\ conn' = [conn EXCEPT ![r] = "closed"]
    /\ disc_stage' = [disc_stage EXCEPT ![r] = StageWindow(pc[r])]
    /\ UNCHANGED <<storage, kind, conv, pc, is_first_message, title_task,
                   calls, chairman, locals, events, response, late,
                   settle_order, others>>

\* Lines 456-463: the streaming response stops iterating the generator of
\* a disconnected caller; the generator is cancelled where it is suspended,
\* and with it the calls it is awaiting.  Until that happens the generator
\* keeps running.
stream_cancelled(r) ==
    /\ kind[r] = "stream"
    /\ pc[r] \in GeneratorPositions
    /\ conn[r] = "closed"
    /\ pc' = [pc EXCEPT ![r] = "cancelled"]
    /\ calls' = [calls EXCEPT ![r] =
                   [k \in 1..2 |-> [i \in ModelIdx |->
                       IF @[k][i] = "inflight" THEN "cancelled" ELSE @[k][i]]]]
    /\ chairman' = [chairman EXCEPT ![r] =
                      IF @ = "inflight" THEN "cancelled" ELSE @]
    /\ title_task' = [title_task EXCEPT ![r] =
                        IF pc[r] = "await_title" /\ @ = "pending"
                        THEN "cancelled" ELSE @]
    /\ UNCHANGED <<storage, kind, conv, is_first_message, locals, events,
                   response, conn, late, disc_stage, settle_order, others>>

\* ------------------------------------------------------------------------
\* Specification
\* ------------------------------------------------------------------------
Outcomes == {"ok", "fail"}

Next ==
    \E r \in Requests :
       \/ \E c \in ConvIds : send_message(r, c)
       \/ send_message_title_done(r)
       \/ run_full_council_stage1_done(r)
       \/ run_full_council_stage2_done(r)
       \/ run_full_council_stage3_done(r)
       \/ \E c \in ConvIds : send_message_stream(r, c)
       \/ event_generator_begin(r)
       \/ event_generator_stage1_call(r)
       \/ event_generator_stage1_complete(r)
       \/ event_generator_stage2_start(r)
       \/ event_generator_stage2_call(r)
       \/ event_generator_stage2_complete(r)
       \/ event_generator_stage3_start(r)
       \/ event_generator_stage3_call(r)
       \/ event_generator_stage3_complete(r)
       \/ event_generator_title_wait(r)
       \/ event_generator_title_complete(r)
       \/ event_generator_save(r)
       \/ event_generator_return(r)
       \/ \E k \in 1..2 : \E i \in ModelIdx : \E o \in Outcomes :
             model_call_settles(r, k, i, o)
       \/ \E o \in Outcomes : chairman_call_settles(r, o)
       \/ \E o \in Outcomes : title_call_settles(r, o)
       \/ client_disconnects(r)
       \/ stream_cancelled(r)

Spec == Init /\ [][Next]_vars


\* ------------------------------------------------------------------------
\* Streams whose caller stays connected and whose model invocations all
\* settle: the event loop resumes a generator that can run, and a call in
\* flight ends in a success or in a failure (a timeout is a failure).
\* ------------------------------------------------------------------------
\* One step of the generator of request r.
event_generator_step(r) ==
    \/ event_generator_begin(r)
    \/ event_generator_stage1_call(r)
    \/ event_generator_stage1_complete(r)
    \/ event_generator_stage2_start(r)
    \/ event_generator_stage2_call(r)
    \/ event_generator_stage2_complete(r)
    \/ event_generator_stage3_start(r)
    \/ event_generator_stage3_call(r)
    \/ event_generator_stage3_complete(r)
    \/ event_generator_title_wait(r)
    \/ event_generator_title_complete(r)
    \/ event_generator_save(r)
    \/ event_generator_return(r)

\* One step of the stream of request r.
stream_step(r) ==
    \/ \E c \in ConvIds : send_message_stream(r, c)
    \/ event_generator_step(r)

\* One invocation made for request r settles.
invocation_settles(r) ==
    \/ \E k \in 1..2 : \E i \in ModelIdx : \E o \in Outcomes :
          model_call_settles(r, k, i, o)
    \/ \E o \in Outcomes : chairman_call_settles(r, o)
    \/ \E o \in Outcomes : title_call_settles(r, o)

NextLive == \E r \in Requests : stream_step(r) \/ invocation_settles(r)

SpecLive ==
    /\ Init
    /\ [][NextLive]_vars
    /\ WF_vars(NextLive)

\* ------------------------------------------------------------------------
\* Several message requests on the stored conversation, served by one
\* event loop: a handler runs without interruption between two awaits, and
\* the requests interleave at their awaits and yields.  Every invocation
\* succeeds and every caller stays connected.
\* ------------------------------------------------------------------------
InitRace == InitEndpoints(Requests) /\ AggIdle /\ ProxyIdle /\ CliIdle

\* One step of the synchronous handler of request r.
send_message_step(r) ==
    \/ \E c \in StoredIds : send_message(r, c)
    \/ send_message_title_done(r)
    \/ run_full_council_stage1_done(r)
    \/ run_full_council_stage2_done(r)
    \/ run_full_council_stage3_done(r)

NextRace ==
    \E r \in Requests :
       \/ send_message_step(r)
       \/ \E c \in StoredIds : send_message_stream(r, c)
       \/ event_generator_step(r)
       \/ \E k \in 1..2 : \E i \in ModelIdx : model_call_settles(r, k, i, "ok")
       \/ chairman_call_settles(r, "ok")
       \/ title_call_settles(r, "ok")

SpecRace == InitRace /\ [][NextRace]_vars

\* ------------------------------------------------------------------------
\* The Rank Aggregator on its own: calculate_aggregate_rankings applied to
\* submissions drawn from the rankings the judges can hand in, in every
\* order of the submissions.
\* ------------------------------------------------------------------------
\* Every ordering of n >= 1 distinct labels of ls.
RankingsOfLen(ls, n) ==
    {q \in [1..n -> ls] : \A a, b \in 1..n : a # b => q[a] # q[b]}

\* What a judge can hand in over the labels ls: a failure, or a ranking of
\* some or all of the labels.
SubmissionsOf(j, ls) ==
    {[judge |-> COUNCIL_MODELS[j], ordered_labels |-> <<>>, raw_text |-> "",
      error |-> "Failure"]}
    \cup
    {[judge |-> COUNCIL_MODELS[j], ordered_labels |-> q, raw_text |-> "ranking",
      error |-> ""] :
        q \in UNION {RankingsOfLen(ls, n) : n \in 1..Cardinality(ls)}}

InitAgg ==
    /\ EndpointsIdle
    /\ ProxyIdle
    /\ CliIdle
    /\ \E cs \in [ModelIdx -> {"ok", "fail"}] :
          LET l2m == LabelMap(stage1_collect_responses(cs))
          IN  /\ agg_l2m = l2m
              /\ agg_subs \in {q \in [ModelIdx -> UNION {SubmissionsOf(j, DOMAIN l2m) :
                                                          j \in ModelIdx}] :
                                  \A j \in ModelIdx : q[j].judge = COUNCIL_MODELS[j]}
    /\ agg_orig = agg_subs
    /\ agg_result = <<>>

\* The aggregator runs on the submissions as they are ordered now.
aggregate(subs, l2m) ==
    /\ agg_result = <<>>
    /\ subs = agg_subs /\ l2m = agg_l2m
    /\ agg_result' = <<calculate_aggregate_rankings(subs, l2m)>>
    /\ UNCHANGED <<agg_orig, agg_subs, agg_l2m>>

\* The same submissions are handed over in another order.
reorder_submissions(i) ==
    /\ agg_subs' = [agg_subs EXCEPT ![i] = agg_subs[i + 1],
                                    ![i + 1] = agg_subs[i]]
    /\ agg_subs' # agg_subs
    /\ agg_result' = <<>>
    /\ UNCHANGED <<agg_orig, agg_l2m>>

endpointVars ==
    <<storage, kind, conv, pc, is_first_message, title_task, calls, chairman,
      locals, events, response, conn, late, disc_stage, settle_order>>

NextAgg ==
    \/ /\ aggregate(agg_subs, agg_l2m)
       /\ UNCHANGED <<endpointVars, proxyVars, cliVars>>
    \/ \E i \in 1..(NumModels - 1) :
          /\ reorder_submissions(i)
          /\ UNCHANGED <<endpointVars, proxyVars, cliVars>>

SpecAgg == InitAgg /\ [][NextAgg]_vars

\* ------------------------------------------------------------------------
\* The proxy process of the application (backend/main.py 210-284)
\* ------------------------------------------------------------------------
InitProxy ==
    /\ EndpointsIdle
    /\ AggIdle
    /\ CliIdle
    /\ proxy_pc = "off"
    /\ lifecycles = 0
    /\ health = "none"
    /\ binary_exists \in BOOLEAN
    /\ external_up \in BOOLEAN
    /\ proxy_process = 0
    /\ procs = [p \in Procs |-> NoProc]

\* The proxy answers its health endpoint: one the application did not
\* start, or the one it started, once that one serves.
Answering ==
    \/ external_up
    \/ \E p \in Procs : procs[p].state = "serving"

\* Lines 210-218: True on a 200 answer; no answer, another status, a
\* timeout or any exception is False.
check_proxy_running(answer) ==
    /\ answer \in BOOLEAN
    /\ answer => Answering

\* Lines 221-237.  The process started is the one of this startup.
start_proxy(outcome) ==
    IF ~binary_exists
    THEN /\ outcome = "no_binary"
         /\ UNCHANGED <<proxy_process, procs>>
    ELSE \/ /\ outcome = "started"
            /\ proxy_process' = lifecycles
            /\ procs' = [procs EXCEPT ![lifecycles] =
                           [state |-> "starting", terminated |-> FALSE,
                            waited |-> FALSE, health_seen |-> health',
                            binary_seen |-> binary_exists]]
         \/ /\ outcome = "oserror"
            /\ UNCHANGED <<proxy_process, procs>>

\* The application starts: startup_event runs up to its first await.
startup_event ==
    /\ proxy_pc = "off"
    /\ lifecycles < MaxLifecycles
    /\ lifecycles' = lifecycles + 1
    /\ health' = "none"
    /\ proxy_pc' = "check1"
    /\ UNCHANGED <<binary_exists, external_up, proxy_process, procs>>

\* Faulty variant: the proxy is started whatever the health check reports.
startup_event_checked_always_starts(answer) ==
    /\ proxy_pc = "check1"
    /\ check_proxy_running(answer)
    /\ health' = IF answer THEN "running" ELSE "not_running"
    /\ \E outcome \in {"no_binary", "started", "oserror"} :
          /\ start_proxy(outcome)
          /\ proxy_pc' = IF outcome = "oserror" THEN "failed" ELSE "sleep"
    /\ UNCHANGED <<lifecycles, binary_exists, external_up>>

\* Lines 265-267 and 272-273: the first health check returns; when it
\* reports that the proxy is not running, start_proxy is called and the
\* handler sleeps.  An exception of Popen ends the startup.
startup_event_checked(answer) ==
    /\ proxy_pc = "check1"
    /\ check_proxy_running(answer)
    /\ health' = IF answer THEN "running" ELSE "not_running"
    /\ IF answer
       THEN /\ proxy_pc' = "up"
            /\ UNCHANGED <<proxy_process, procs>>
       ELSE \E outcome \in {"no_binary", "started", "oserror"} :
               /\ start_proxy(outcome)
               /\ proxy_pc' = IF outcome = "oserror" THEN "failed" ELSE "sleep"
    /\ UNCHANGED <<lifecycles, binary_exists, external_up>>

\* Line 267: the sleep ends and the second health check is awaited.
startup_event_slept ==
    /\ proxy_pc = "sleep"
    /\ proxy_pc' = "check2"
    /\ UNCHANGED <<lifecycles, health, binary_exists, external_up,
                   proxy_process, procs>>

\* Lines 268-271: the second health check only chooses the line printed.
startup_event_rechecked(answer) ==
    /\ proxy_pc = "check2"
    /\ check_proxy_running(answer)
    /\ proxy_pc' = "up"
    /\ UNCHANGED <<lifecycles, health, binary_exists, external_up,
                   proxy_process, procs>>

\* Lines 279-282: with no process tracked the handler is done; otherwise
\* the process is sent SIGTERM and the handler blocks in wait().
shutdown_event ==
    /\ proxy_pc = "up"
    /\ IF proxy_process = 0
       THEN /\ proxy_pc' = "off"
            /\ UNCHANGED procs
       ELSE /\ procs' = [procs EXCEPT ![proxy_process].terminated = TRUE]
            /\ proxy_pc' = "waiting"
    /\ UNCHANGED <<lifecycles, health, binary_exists, external_up, proxy_process>>

\* Lines 283-284: wait() returns once the process has ended.
shutdown_event_waited ==
    /\ proxy_pc = "waiting"
    /\ procs[proxy_process].state = "exited"
    /\ procs' = [procs EXCEPT ![proxy_process].state = "reaped",
                              ![proxy_process].waited = TRUE]
    /\ proxy_process' = 0
    /\ proxy_pc' = "off"
    /\ UNCHANGED <<lifecycles, health, binary_exists, external_up>>

\* The process started by the application begins to serve.
proxy_serves(p) ==
    /\ procs[p].state = "starting"
    /\ ~procs[p].terminated
    /\ procs' = [procs EXCEPT ![p].state = "serving"]
    /\ UNCHANGED <<proxy_pc, lifecycles, health, binary_exists, external_up,
                   proxy_process>>

\* The process ends: by itself, or because it was sent SIGTERM.
proxy_exits(p) ==
    /\ procs[p].state \in {"starting", "serving"}
    /\ procs' = [procs EXCEPT ![p].state = "exited"]
    /\ UNCHANGED <<proxy_pc, lifecycles, health, binary_exists, external_up,
                   proxy_process>>

\* A proxy the application did not start comes up or goes away.
external_proxy_changes ==
    /\ external_up' = ~external_up
    /\ UNCHANGED <<proxy_pc, lifecycles, health, binary_exists, proxy_process,
                   procs>>

\* What the lifecycle of the proxy process leaves alone.
proxyFrame == <<endpointVars, aggVars, cliVars>>

NextProxy ==
    \/ startup_event /\ UNCHANGED proxyFrame
    \/ \E answer \in BOOLEAN :
          startup_event_checked(answer) /\ UNCHANGED proxyFrame
    \/ startup_event_slept /\ UNCHANGED proxyFrame
    \/ \E answer \in BOOLEAN :
          startup_event_rechecked(answer) /\ UNCHANGED proxyFrame
    \/ shutdown_event /\ UNCHANGED proxyFrame
    \/ shutdown_event_waited /\ UNCHANGED proxyFrame
    \/ \E p \in Procs : proxy_serves(p) /\ UNCHANGED proxyFrame
    \/ \E p \in Procs : proxy_exits(p) /\ UNCHANGED proxyFrame
    \/ external_proxy_changes /\ UNCHANGED proxyFrame

SpecProxy == InitProxy /\ [][NextProxy]_vars

\* ------------------------------------------------------------------------
\* The launcher script (backend/start_proxy.py)
\* ------------------------------------------------------------------------
Commands == {"setup", "login", "start", "all"}

\* Line 211: the providers the `all` command prompts for, in this order.
Providers == <<"openai", "gemini", "claude">>

InitCli ==
    /\ EndpointsIdle
    /\ AggIdle
    /\ ProxyIdle
    /\ cli_pc = "main"
    /\ cli_command \in Commands
    /\ cli_provider \in {"", "openai"}
    /\ cli_binary \in BOOLEAN
    /\ cli_next = 1
    /\ cli_trace = <<>>
    /\ cli_exit = -1
    /\ cli_process = "none"

\* One step of the script: the function called, its argument, whether it
\* succeeded.
Step(s, a, ok) == [step |-> s, arg |-> a, ok |-> ok]

Ran(e) == cli_trace' = Append(cli_trace, e)

\* sys.exit(status), or the end of the script, or an uncaught exception
\* (status 1).
Exit(status) ==
    /\ cli_exit' = status
    /\ cli_pc' = "exited"

\* Lines 45-91: the ways download_binary ends.
DownloadOutcomes ==
    {"raised", "unsupported"} \cup
    (IF cli_binary THEN {"exists"} ELSE {"downloaded", "error"})

\* Lines 131-150: the ways run_oauth_login ends.
LoginOutcomes ==
    IF cli_binary THEN {"ok", "failed", "raised"} ELSE {"no_binary"}

\* Lines 153-173: the ways start_proxy ends.
StartOutcomes ==
    IF cli_binary THEN {"started", "oserror"} ELSE {"no_binary"}

\* Faulty variant: the script goes on after a failed download.
main_download_binary_goes_on(outcome) ==
    /\ cli_pc = "main"
    /\ cli_command \in {"setup", "all"}
    /\ outcome \in DownloadOutcomes
    /\ Ran(Step("download_binary", "", outcome \in {"exists", "downloaded"}))
    /\ cli_binary' = (cli_binary \/ outcome = "downloaded")
    /\ cli_pc' = "setup_config"
    /\ UNCHANGED <<cli_command, cli_provider, cli_next, cli_exit, cli_process>>

\* Lines 196-198: download_binary, and the exit when it fails.
main_download_binary(outcome) ==
    /\ cli_pc = "main"
    /\ cli_command \in {"setup", "all"}
    /\ outcome \in DownloadOutcomes
    /\ Ran(Step("download_binary", "", outcome \in {"exists", "downloaded"}))
    /\ cli_binary' = (cli_binary \/ outcome = "downloaded")
    /\ IF outcome \in {"exists", "downloaded"}
       THEN cli_pc' = "setup_config" /\ UNCHANGED cli_exit
       ELSE Exit(1)
    /\ UNCHANGED <<cli_command, cli_provider, cli_next, cli_process>>

\* Lines 199-201: setup_config returns True or raises.
main_setup_config(outcome) ==
    /\ cli_pc = "setup_config"
    /\ outcome \in {"exists", "written", "raised"}
    /\ Ran(Step("setup_config", "", outcome # "raised"))
    /\ IF outcome # "raised"
       THEN cli_pc' = "after_setup" /\ UNCHANGED cli_exit
       ELSE Exit(1)
    /\ UNCHANGED <<cli_command, cli_provider, cli_binary, cli_next, cli_process>>

\* Line 196: the commands login and start skip the setup.
main_no_setup ==
    /\ cli_pc = "main"
    /\ cli_command \notin {"setup", "all"}
    /\ cli_pc' = "after_setup"
    /\ UNCHANGED <<cli_command, cli_provider, cli_binary, cli_next, cli_trace,
                   cli_exit, cli_process>>

\* After line 201 the setup command has nothing left to do.
main_setup_done ==
    /\ cli_pc = "after_setup"
    /\ cli_command = "setup"
    /\ Exit(0)
    /\ UNCHANGED <<cli_command, cli_provider, cli_binary, cli_next, cli_trace,
                   cli_process>>

\* Lines 203-208: the login command.
main_login(outcome) ==
    /\ cli_pc = "after_setup"
    /\ cli_command = "login"
    /\ IF cli_provider = ""
       THEN /\ outcome = "no_provider"
            /\ Exit(1)
            /\ UNCHANGED cli_trace
       ELSE /\ outcome \in LoginOutcomes
            /\ Ran(Step("run_oauth_login", cli_provider, outcome = "ok"))
            /\ Exit(IF outcome = "raised" THEN 1 ELSE 0)
    /\ UNCHANGED <<cli_command, cli_provider, cli_binary, cli_next, cli_process>>

\* Lines 210-214: one round of the loop over the providers: the prompt,
\* and the login when the answer is y.
main_prompt(answer, outcome) ==
    /\ cli_pc = "after_setup"
    /\ cli_command = "all"
    /\ cli_next <= Len(Providers)
    /\ answer \in {"y", "n", "eof"}
    /\ LET p == Providers[cli_next]
           asked == Append(cli_trace, Step("prompt", p, answer # "eof"))
       IN  IF answer = "y"
           THEN /\ outcome \in LoginOutcomes
                /\ cli_trace' = Append(asked, Step("run_oauth_login", p,
                                                   outcome = "ok"))
           ELSE /\ outcome = "none"
                /\ cli_trace' = asked
    /\ IF answer = "eof" \/ outcome = "raised"
       THEN /\ Exit(1)
            /\ UNCHANGED cli_next
       ELSE /\ cli_next' = cli_next + 1
            /\ UNCHANGED <<cli_pc, cli_exit>>
    /\ UNCHANGED <<cli_command, cli_provider, cli_binary, cli_process>>

\* Lines 216-219: start_proxy; without a process the script ends.
main_start_proxy(outcome) ==
    /\ cli_pc = "after_setup"
    /\ \/ cli_command = "start"
       \/ cli_command = "all" /\ cli_next > Len(Providers)
    /\ outcome \in StartOutcomes
    /\ Ran(Step("start_proxy", "", outcome = "started"))
    /\ IF outcome = "started"
       THEN /\ cli_process' = "running"
            /\ cli_pc' = "serving"
            /\ UNCHANGED cli_exit
       ELSE /\ Exit(0)
            /\ UNCHANGED cli_process
    /\ UNCHANGED <<cli_command, cli_provider, cli_binary, cli_next>>

\* Lines 220-221: process.wait() returns because the proxy ended.
main_wait_returns ==
    /\ cli_pc = "serving"
    /\ cli_process' = "exited"
    /\ Exit(0)
    /\ UNCHANGED <<cli_command, cli_provider, cli_binary, cli_next, cli_trace>>

\* Lines 222-225: Ctrl+C: the proxy is terminated and waited for.
main_keyboard_interrupt ==
    /\ cli_pc = "serving"
    /\ cli_process' = "terminated"
    /\ Exit(0)
    /\ UNCHANGED <<cli_command, cli_provider, cli_binary, cli_next, cli_trace>>

\* What the script leaves alone.
cliFrame == <<endpointVars, aggVars, proxyVars>>

NextCli ==
    \/ \E o \in {"raised", "unsupported", "exists", "downloaded", "error"} :
          main_download_binary(o) /\ UNCHANGED cliFrame
    \/ \E o \in {"exists", "written", "raised"} :
          main_setup_config(o) /\ UNCHANGED cliFrame
    \/ main_no_setup /\ UNCHANGED cliFrame
    \/ main_setup_done /\ UNCHANGED cliFrame
    \/ \E o \in {"no_provider", "no_binary", "ok", "failed", "raised"} :
          main_login(o) /\ UNCHANGED cliFrame
    \/ \E a \in {"y", "n", "eof"} :
       \E o \in {"none", "no_binary", "ok", "failed", "raised"} :
          main_prompt(a, o) /\ UNCHANGED cliFrame
    \/ \E o \in {"no_binary", "started", "oserror"} :
          main_start_proxy(o) /\ UNCHANGED cliFrame
    \/ main_wait_returns /\ UNCHANGED cliFrame
    \/ main_keyboard_interrupt /\ UNCHANGED cliFrame

SpecCli == InitCli /\ [][NextCli]_vars

\* ------------------------------------------------------------------------
\* Vocabulary of the properties
\* ------------------------------------------------------------------------
EventTypes(r) == [i \in 1..Len(events[r]) |-> events[r][i].type]

StageEventOrder == <<"stage1_start", "stage1_complete", "stage2_start",
                     "stage2_complete", "stage3_start", "stage3_complete">>

IsStageEvent(t) == \E i \in 1..Len(StageEventOrder) : StageEventOrder[i] = t

StageEvents(r) == SelectSeq(EventTypes(r), IsStageEvent)

IsTerminal(t) == t \in {"complete", "error"}

LastEventType(r) == events[r][Len(events[r])].type

\* The request has run to its end: the generator returned, or the
\* synchronous handler answered.
Finished(r) == pc[r] \in {"closed", "responded"}

\* The user message of the request has been stored.
Accepted(r) == \E i \in 1..Len(storage[conv[r]].messages) :
                  /\ storage[conv[r]].messages[i].role = "user"
                  /\ storage[conv[r]].messages[i].by = r

\* Positions of the assistant messages the request has persisted.
PersistedBy(r) ==
    IF conv[r] \notin DOMAIN storage THEN {}
    ELSE {i \in 1..Len(storage[conv[r]].messages) :
             /\ storage[conv[r]].messages[i].role = "assistant"
             /\ storage[conv[r]].messages[i].by = r}

Stage1Done(r) == locals[r].stage1_results # <<>>

Stage2Done(r) == locals[r].stage2_results # <<>>

Stage2Invoked(r) == \E i \in ModelIdx : calls[r][2][i] # "idle"

Stage3Invoked(r) == chairman[r] # "idle"

\* The caller was told that the turn failed, and why: by the error event of
\* a stream, by the Fatal mark of the turn a synchronous request returns.
ReportedError(r, why) ==
    \/ kind[r] = "stream" /\ \E i \in 1..Len(events[r]) :
          events[r][i].type = "error" /\ events[r][i].message = why
    \/ kind[r] = "sync" /\ response[r].status = 200
                        /\ response[r].body.stage3.error = why

\* ------------------------------------------------------------------------
\* C1: the stage events of a stream appear in the order stage1_start,
\* stage1_complete, stage2_start, stage2_complete, stage3_start,
\* stage3_complete, each at most once: the stage events yielded so far are
\* always a prefix of that list.
\* ------------------------------------------------------------------------
C1_StageEventsInOrder ==
    \A r \in Requests :
        /\ Len(StageEvents(r)) <= Len(StageEventOrder)
        /\ \A i \in 1..Len(StageEvents(r)) : StageEvents(r)[i] = StageEventOrder[i]

C1_Witness ==
    \E r \in Requests : kind[r] = "stream" /\ StageEvents(r) = StageEventOrder

\* ------------------------------------------------------------------------
\* C2: a stream that runs to its end is terminated by exactly one terminal
\* event, complete or error, never both, and nothing follows it: a terminal
\* event is always the last event, and a returned generator has one.
\* ------------------------------------------------------------------------
C2_OneTerminalEventLast ==
    \A r \in Requests :
        /\ \A i \in 1..Len(events[r]) :
              IsTerminal(events[r][i].type) => i = Len(events[r])
        /\ pc[r] = "closed" =>
              /\ Len(events[r]) > 0
              /\ IsTerminal(LastEventType(r))

C2_Witness ==
    \E r \in Requests :
        /\ pc[r] = "closed"
        /\ LastEventType(r) = "error"
        /\ Len(events[r]) > 1

\* ------------------------------------------------------------------------
\* C3: when the chairman call fails after Stage 1 and Stage 2 produced
\* results, the turn is reported as errored and the Stage-1 and Stage-2
\* results are persisted for the turn, equal to the computed values.
\* ------------------------------------------------------------------------
C3_ChairmanFailureKeepsStages ==
    \A r \in Requests :
        (Finished(r) /\ chairman[r] = "fail" /\ Stage1Done(r) /\ Stage2Done(r)) =>
            /\ ReportedError(r, FatalChairman)
            /\ \E i \in PersistedBy(r) :
                  /\ storage[conv[r]].messages[i].stage1 = locals[r].stage1_results
                  /\ storage[conv[r]].messages[i].stage2 = locals[r].stage2_results

\* ------------------------------------------------------------------------
\* C4: when every Stage-1 call fails, Stage 2 and Stage 3 are never invoked
\* for the turn and the turn is reported Fatal("no responses"), for the
\* synchronous and for the streaming entry point.
\* ------------------------------------------------------------------------
C4_NoResponsesSkipsStages ==
    \A r \in Requests :
        (Stage1Done(r) /\ Successful(locals[r].stage1_results) = <<>>) =>
            /\ ~Stage2Invoked(r)
            /\ ~Stage3Invoked(r)
            /\ Finished(r) => ReportedError(r, FatalNoResponses)

\* ------------------------------------------------------------------------
\* C5: title generation never gates stage progression, in send_message and
\* in send_message_stream: a request is only ever blocked on a pending
\* title generation once all three stages have completed.
\* ------------------------------------------------------------------------
C5_TitleNeverGatesStages ==
    \A r \in Requests :
        (pc[r] \in {"sm_await_title", "await_title"} /\ title_task[r] = "pending") =>
            /\ Stage1Done(r)
            /\ Stage2Done(r)
            /\ Settled(chairman[r])


C6_Causes == {FatalChairman, FatalNoResponses}

\* ------------------------------------------------------------------------
\* C6: a failure of title generation never fails the turn: the title stays
\* at its default placeholder, every error the caller is told of is a
\* failure of a stage, and a turn whose stages did not raise ends without
\* an error and with its assistant message persisted.
\* ------------------------------------------------------------------------
C6_TitleFailureHarmless ==
    \A r \in Requests :
        title_task[r] = "fail" =>
            /\ storage[conv[r]].title = DefaultTitle
            /\ \A i \in 1..Len(events[r]) :
                  events[r][i].type = "error" => events[r][i].message \in C6_Causes
            /\ response[r].status \in {0, 200}
            /\ (Finished(r) /\ ~ReportedError(r, FatalChairman)) =>
                  /\ Cardinality(PersistedBy(r)) = 1
                  /\ kind[r] = "stream" => LastEventType(r) = "complete"

C6_Witness ==
    \E r \in Requests :
        /\ title_task[r] = "fail"
        /\ pc[r] = "closed"
        /\ \E i \in 1..Len(events[r]) :
              /\ events[r][i].type = "title_complete"
              /\ events[r][i].data.title = DefaultTitle
        /\ LastEventType(r) = "complete"

\* ------------------------------------------------------------------------
\* C7: after a disconnect while stage k is running or just after it
\* completed, the calls of stage k+1 are never dispatched, and the calls in
\* flight for stage k are left to settle (none of them is cancelled).
\* ------------------------------------------------------------------------
C7_DisconnectStopsAtStageBoundary ==
    \A r \in Requests : \A k \in 1..2 :
        disc_stage[r] = k =>
            /\ (k + 1) \notin late[r]
            /\ \A i \in ModelIdx : calls[r][k][i] # "cancelled"

\* ------------------------------------------------------------------------
\* C8: strict barrier across stages: no Stage-2 call is dispatched before
\* every Stage-1 call has settled, and the chairman call is not dispatched
\* before every Stage-2 call has settled and the aggregate ranking has been
\* computed from the Stage-2 results.
\* ------------------------------------------------------------------------
C8_StageBarrier ==
    \A r \in Requests :
        /\ Stage2Invoked(r) =>
              /\ AllSettled(calls[r][1])
              /\ locals[r].stage1_results = stage1_collect_responses(calls[r][1])
        /\ Stage3Invoked(r) =>
              /\ AllSettled(calls[r][2])
              /\ locals[r].stage2_results =
                    stage2_collect_rankings(calls[r][2], locals[r].stage1_results)
              /\ locals[r].metadata_set
              /\ locals[r].aggregate_rankings =
                    calculate_aggregate_rankings(locals[r].stage2_results,
                                                 locals[r].label_to_model)

C8_Witness ==
    \E r \in Requests :
        /\ kind[r] = "stream"
        /\ chairman[r] = "inflight"
        /\ \E i \in ModelIdx : calls[r][1][i] = "fail"
        /\ \E i \in ModelIdx : calls[r][2][i] = "ok"

\* ------------------------------------------------------------------------
\* C9: each accepted user message results in exactly one persisted council
\* turn, on every outcome of the pipeline, and the persisted turn holds the
\* values the pipeline computed.
\* ------------------------------------------------------------------------
C9_ExactlyOnePersistedTurn ==
    \A r \in Requests :
        Finished(r) =>
            /\ Accepted(r)
            /\ Cardinality(PersistedBy(r)) = 1
            /\ \A i \in PersistedBy(r) :
                  /\ storage[conv[r]].messages[i].stage1 = locals[r].stage1_results
                  /\ storage[conv[r]].messages[i].stage2 = locals[r].stage2_results
                  /\ storage[conv[r]].messages[i].stage3 = locals[r].stage3_result

\* ------------------------------------------------------------------------
\* C10 as stated: the complete event carries the full council turn (Stage-1
\* results, Stage-2 results, Stage-3 result, aggregate ranking) and the
\* error event carries a failure description.
\* ------------------------------------------------------------------------
C10_CompleteCarriesFullTurn ==
    \A r \in Requests : \A i \in 1..Len(events[r]) :
        LET e == events[r][i]
        IN  /\ e.type = "complete" =>
                  /\ "data" \in DOMAIN e
                  /\ e.data.stage1 = locals[r].stage1_results
                  /\ e.data.stage2 = locals[r].stage2_results
                  /\ e.data.stage3 = locals[r].stage3_result
                  /\ e.data.aggregate = locals[r].aggregate_rankings
            /\ e.type = "error" => ("message" \in DOMAIN e /\ e.message # "")

\* The stage-complete event of the given type, with the given fields, was
\* yielded before position i of the stream.
YieldedBefore(r, i, e) == \E j \in 1..(i - 1) : events[r][j] = e

\* ------------------------------------------------------------------------
\* C10 amended: the complete event carries its type only; the council turn
\* has been carried by the events yielded before it: stage1_complete with
\* the Stage-1 results, stage2_complete with the Stage-2 results, the label
\* map and the aggregate ranking, stage3_complete with the Stage-3 result.
\* The error event carries a failure description.
\* ------------------------------------------------------------------------
C10_TurnCarriedByStageEvents ==
    \A r \in Requests : \A i \in 1..Len(events[r]) :
        LET e == events[r][i]
        IN  /\ e.type = "complete" =>
                  /\ DOMAIN e = {"type"}
                  /\ YieldedBefore(r, i, [type |-> "stage1_complete",
                                          data |-> locals[r].stage1_results])
                  /\ YieldedBefore(r, i, [type |-> "stage2_complete",
                         data |-> locals[r].stage2_results,
                         metadata |-> [label_to_model |-> locals[r].label_to_model,
                             aggregate_rankings |-> locals[r].aggregate_rankings]])
                  /\ YieldedBefore(r, i, [type |-> "stage3_complete",
                                          data |-> locals[r].stage3_result])
            /\ e.type = "error" => ("message" \in DOMAIN e /\ e.message # "")

C10_Witness ==
    \E r \in Requests :
        /\ Len(events[r]) > 0
        /\ LastEventType(r) = "complete"
        /\ locals[r].aggregate_rankings # <<>>

\* ------------------------------------------------------------------------
\* Vocabulary of the aggregation properties
\* ------------------------------------------------------------------------
\* The submissions are the same multiset as first handed over.
SamePermuted ==
    \E f \in [ModelIdx -> ModelIdx] :
        /\ \A a, b \in ModelIdx : a # b => f[a] # f[b]
        /\ \A j \in ModelIdx : agg_subs[j] = agg_orig[f[j]]

\* The aggregate ranking of the submissions in the order first handed over.
OriginalRanking == calculate_aggregate_rankings(agg_orig, agg_l2m)

\* Two entries of the ranking last computed are tied on score.
TiedScores ==
    \E a, b \in 1..Len(agg_result[1]) :
        a # b /\ agg_result[1][a].score = agg_result[1][b].score

\* The label that stands for model m in the label map.
LabelOf(m) == CHOOSE l \in DOMAIN agg_l2m : agg_l2m[l] = m

\* The points the scoring rule gives label l from the judge at position j:
\* nothing from a failed judge or for an omitted label, N - p + 1 at
\* position p of a ranking of N labels.
RulePoints(j, l) ==
    LET sub == agg_subs[j]
        n   == Len(sub.ordered_labels)
    IN  IF sub.error # "" THEN 0
        ELSE IF \E p \in 1..n : sub.ordered_labels[p] = l
             THEN n - (CHOOSE p \in 1..n : sub.ordered_labels[p] = l) + 1
             ELSE 0

RECURSIVE RuleScore(_, _)
RuleScore(l, j) == IF j = 0 THEN 0 ELSE RulePoints(j, l) + RuleScore(l, j - 1)

\* ------------------------------------------------------------------------
\* C12: the aggregate ranking is the same ordered list of (model, score),
\* tied models included, for every ordering of the same ranking submissions.
\* ------------------------------------------------------------------------
C12_PermutationInvariant ==
    agg_result # <<>> =>
        /\ SamePermuted
        /\ agg_result[1] = OriginalRanking

C12_Witness ==
    /\ agg_result # <<>>
    /\ agg_subs # agg_orig
    /\ Len(agg_result[1]) = NumModels
    /\ TiedScores
    /\ \E j \in ModelIdx : agg_subs[j].error # ""

\* ------------------------------------------------------------------------
\* C13: a successful submission ranking N labels gives the label at
\* position p N - p + 1 points and an omitted label 0 points; a submission
\* that omits labels is still counted; a model's aggregate score is the sum
\* of its label's points over all judges, and the ranking has one entry per
\* labelled model.
\* ------------------------------------------------------------------------
C13_InverseRankPoints ==
    agg_result # <<>> =>
        LET res == agg_result[1]
        IN  /\ {res[i].model : i \in 1..Len(res)} =
                   {agg_l2m[l] : l \in DOMAIN agg_l2m}
            /\ Len(res) = Cardinality(DOMAIN agg_l2m)
            /\ \A i \in 1..Len(res) :
                  res[i].score = RuleScore(LabelOf(res[i].model), NumModels)

C13_Witness ==
    /\ agg_result # <<>>
    /\ Cardinality(DOMAIN agg_l2m) = NumModels
    /\ \E j \in ModelIdx :
          /\ agg_subs[j].error = ""
          /\ Len(agg_subs[j].ordered_labels) = 2
          /\ \E i \in 1..Len(agg_result[1]) :
                agg_result[1][i].score = 2

Emitted(r, t) == \E i \in 1..Len(events[r]) : events[r][i].type = t

\* ------------------------------------------------------------------------
\* C15: in a stream the assistant message is persisted only after
\* stage1_complete, stage2_complete and stage3_complete have been emitted,
\* complete is emitted only after it has been persisted, and a stream that
\* ends with error has persisted no assistant message.
\* ------------------------------------------------------------------------
C15_PersistBetweenStagesAndComplete ==
    \A r \in Requests :
        kind[r] = "stream" =>
            /\ PersistedBy(r) # {} =>
                  /\ Emitted(r, "stage1_complete")
                  /\ Emitted(r, "stage2_complete")
                  /\ Emitted(r, "stage3_complete")
            /\ Emitted(r, "complete") => PersistedBy(r) # {}
            /\ Emitted(r, "error") => PersistedBy(r) = {}

C15_Witness ==
    \E r \in Requests :
        /\ kind[r] = "stream"
        /\ Emitted(r, "title_complete")
        /\ Emitted(r, "complete")
        /\ PersistedBy(r) # {}

\* The request has been received and names a conversation that is not stored.
OnMissingConversation(r) ==
    /\ pc[r] \notin {"idle", "unused"}
    /\ ~get_conversation_exists(conv[r])

\* The request has left nothing behind but its 404 answer.
RejectedWithoutTrace(r) ==
    /\ pc[r] = "rejected"
    /\ response[r] = [status |-> 404, body |-> "Conversation not found"]
    /\ events[r] = <<>>
    /\ title_task[r] = "none"
    /\ calls[r] = IdleCalls
    /\ chairman[r] = "idle"
    /\ locals[r] = NoLocals
    /\ \A c \in StoredIds : \A i \in 1..Len(storage[c].messages) :
          storage[c].messages[i].by # r

\* The step that receives a request for a missing conversation changes
\* nothing but the answer to that request.
RejectStep ==
    \A r \in Requests :
        (pc[r] = "idle" /\ pc'[r] # "idle" /\ ~get_conversation_exists(conv'[r])) =>
            /\ pc'[r] = "rejected"
            /\ response'[r].status = 404
            /\ UNCHANGED <<storage, is_first_message, title_task, calls,
                           chairman, locals, events>>

\* ------------------------------------------------------------------------
\* C16: for a conversation id that is not stored, send_message and
\* send_message_stream answer 404 and change nothing: no user message is
\* stored, no title generation is started, no stage is invoked and no event
\* is emitted, then or later.
\* ------------------------------------------------------------------------
C16_MissingConversationRejected ==
    /\ [](\A r \in Requests : OnMissingConversation(r) => RejectedWithoutTrace(r))
    /\ [][RejectStep]_vars

C16_Witness ==
    /\ \E r \in Requests : OnMissingConversation(r) /\ kind[r] = "stream"
    /\ \A c \in StoredIds : storage[c].messages # <<>>

\* ------------------------------------------------------------------------
\* C11: when every model invocation settles and the caller stays
\* connected, every stream that has been opened eventually emits a terminal
\* event, complete or error: no failed call stalls a stage for ever.
\* ------------------------------------------------------------------------
C11_StreamTerminates ==
    \A r \in Requests :
        (kind[r] = "stream" /\ pc[r] = "gen_ready")
            ~> (Emitted(r, "complete") \/ Emitted(r, "error"))

C11_Witness ==
    \E r \in Requests :
        /\ kind[r] = "stream"
        /\ calls[r][1] = <<"fail", "ok", "fail">>
        /\ calls[r][2] = <<"ok", "fail", "fail">>
        /\ title_task[r] = "fail"
        /\ Emitted(r, "complete")

\* ------------------------------------------------------------------------
\* Vocabulary of the properties of concurrent requests
\* ------------------------------------------------------------------------
\* The requests on conversation c for which title generation was started.
TitleStartedBy(c) ==
    {r \in Requests : conv[r] = c /\ title_task[r] # "none"}

\* The requests on conversation c that have updated its title.
TitleUpdatedBy(c) ==
    {r \in Requests :
        /\ conv[r] = c
        /\ \/ kind[r] = "stream" /\ Emitted(r, "title_complete")
           \/ /\ kind[r] = "sync"
              /\ title_task[r] # "none"
              /\ pc[r] \notin {"idle", "sm_await_title"}}

\* ------------------------------------------------------------------------
\* C17: for one conversation, title generation is started for at most one
\* user message and the title is updated at most once, however the message
\* requests on that conversation interleave.
\* ------------------------------------------------------------------------
C17_TitleAtMostOnce ==
    \A c \in StoredIds :
        /\ Cardinality(TitleStartedBy(c)) <= 1
        /\ Cardinality(TitleUpdatedBy(c)) <= 1

\* ------------------------------------------------------------------------
\* C18: however the message requests on a conversation interleave, its
\* stored messages alternate user / assistant, and every assistant message
\* immediately follows the user message of the request that produced it.
\* ------------------------------------------------------------------------
C18_MessagesAlternate ==
    \A c \in StoredIds :
        LET msgs == storage[c].messages
        IN  \A i \in 1..Len(msgs) :
                /\ i < Len(msgs) => msgs[i].role # msgs[i + 1].role
                /\ msgs[i].role = "assistant" =>
                      /\ i > 1
                      /\ msgs[i - 1].role = "user"
                      /\ msgs[i - 1].by = msgs[i].by

\* The processes the application has started and not yet waited for.
LiveProcs == {p \in Procs : procs[p].state \in {"starting", "serving", "exited"}}

\* ------------------------------------------------------------------------
\* C19: the application starts a proxy process only when the health check
\* of that startup reported that the proxy is not running and the binary
\* exists; it has at most one process it started and not yet waited for,
\* and that one is the process it tracks; once shutdown_event has run, the
\* processes it started have been terminated and waited for and it tracks
\* none.
\* ------------------------------------------------------------------------
C19_ProxyProcessLifecycle ==
    /\ \A p \in Procs :
          procs[p].state # "unborn" =>
              /\ procs[p].health_seen = "not_running"
              /\ procs[p].binary_seen
              /\ binary_exists
    /\ Cardinality(LiveProcs) <= 1
    /\ \A p \in LiveProcs : proxy_process = p
    /\ proxy_process # 0 => proxy_process \in LiveProcs
    /\ (proxy_pc = "off" /\ lifecycles > 0) =>
          /\ proxy_process = 0
          /\ \A p \in Procs :
                procs[p].state # "unborn" =>
                    /\ procs[p].state = "reaped"
                    /\ procs[p].terminated
                    /\ procs[p].waited

C19_Witness ==
    /\ proxy_pc = "off"
    /\ lifecycles = 2
    /\ procs[1].state = "reaped"
    /\ procs[2].state = "reaped"
    /\ proxy_process = 0

\* ------------------------------------------------------------------------
\* Vocabulary of the properties of the launcher script
\* ------------------------------------------------------------------------
\* The place of a step in the order of the `all` command.
ProviderIndex(p) == CHOOSE i \in 1..Len(Providers) : Providers[i] = p

StepRank(e) ==
    IF e.step = "download_binary" THEN 1
    ELSE IF e.step = "setup_config" THEN 2
    ELSE IF e.step = "prompt" THEN 1 + 2 * ProviderIndex(e.arg)
    ELSE IF e.step = "run_oauth_login" THEN 2 + 2 * ProviderIndex(e.arg)
    ELSE 3 + 2 * Len(Providers)

\* The step that has to come immediately before step e.
ComesAfter(e, prev) ==
    IF e.step = "setup_config" THEN prev.step = "download_binary" /\ prev.ok
    ELSE IF e.step = "prompt" /\ ProviderIndex(e.arg) = 1
         THEN prev.step = "setup_config" /\ prev.ok
    ELSE IF e.step = "prompt"
         THEN /\ prev.step \in {"prompt", "run_oauth_login"}
              /\ ProviderIndex(prev.arg) = ProviderIndex(e.arg) - 1
    ELSE IF e.step = "run_oauth_login"
         THEN prev.step = "prompt" /\ prev.arg = e.arg
    ELSE IF e.step = "start_proxy"
         THEN /\ prev.step \in {"prompt", "run_oauth_login"}
              /\ ProviderIndex(prev.arg) = Len(Providers)
    ELSE FALSE

SetupFailed ==
    \E i \in 1..Len(cli_trace) :
        /\ cli_trace[i].step \in {"download_binary", "setup_config"}
        /\ ~cli_trace[i].ok

\* ------------------------------------------------------------------------
\* C20: the `all` command runs download_binary, then setup_config, then
\* the prompts (and logins) for openai, gemini and claude in that order,
\* then start_proxy; when the download or the config setup fails the
\* script exits with status 1, having run no login and started no proxy.
\* ------------------------------------------------------------------------
C20_AllCommandOrder ==
    cli_command = "all" =>
        /\ cli_trace # <<>> => cli_trace[1].step = "download_binary"
        /\ \A i \in 2..Len(cli_trace) :
              /\ StepRank(cli_trace[i - 1]) < StepRank(cli_trace[i])
              /\ ComesAfter(cli_trace[i], cli_trace[i - 1])
        /\ cli_exit = 0 => cli_trace[Len(cli_trace)].step = "start_proxy"
        /\ cli_process # "none" => cli_trace[Len(cli_trace)].step = "start_proxy"
        /\ SetupFailed =>
              /\ cli_exit = 1
              /\ cli_process = "none"
              /\ \A i \in 1..Len(cli_trace) :
                    cli_trace[i].step \notin
                        {"prompt", "run_oauth_login", "start_proxy"}

C20_Witness ==
    /\ cli_command = "all"
    /\ cli_exit = 0
    /\ cli_process = "terminated"
    /\ Len(cli_trace) = 2 + 2 * Len(Providers)
    /\ cli_trace[4].step = "prompt"
    /\ cli_trace[4].arg = "gemini"

====
